---- MODULE Spec2Model ----
(***************************************************************************)
(* Operation lists, the mode filter, the graph-contract verifier, the      *)
(* OneOf combinator and the OpDataset wrapper of fastestimator.             *)
(*                                                                         *)
(* Python values that the code compares or tests for truth (inputs,        *)
(* outputs, mode) are tagged records: None, a string, or a list of         *)
(* strings.  Two values are equal exactly when Python's == says so.        *)
(***************************************************************************)
EXTENDS Integers, Sequences, FiniteSets, TLC

VARIABLES
    pc,          \* which entry point of the library ran last
    ops,         \* the operation list handed to verify_ops / get_op_from_mode / OneOf
    arg,         \* the other argument of the call (class_name, mode, ...)
    result,      \* what the call returned or raised
    forwardLog,  \* every call of forward on an operation, in order
    nested,      \* the (possibly nested) argument of flatten_operation
    oneOf,       \* the OneOf instance under construction / constructed
    dataset,     \* the dataset wrapped by the OpDataset
    heap,        \* the mappings (dicts) that exist, by object identity
    workers,     \* the position of every worker inside OpDataset.__getitem__
    returned,    \* identities of the mappings handed back to callers
    firstRet,    \* per index, what the first __getitem__ returned
    original,    \* per index, the stored item when the wrapper was constructed
    calls        \* __getitem__ calls started, caller writes made

dsVars == <<dataset, heap, workers, returned, firstRet, original, calls>>
vars == <<pc, ops, arg, result, forwardLog, nested, oneOf, dsVars>>

----------------------------------------------------------------------------
(* Bounds *)
MaxOps == 3          \* longest operation list
MaxNodes == 5        \* nodes (ops and lists) of a nested flatten argument
MaxForward == 2      \* forward calls on one OneOf
NumIndex == 2        \* length of the wrapped dataset
BatchSize == 2       \* samples of one item of a batch dataset
NumWorkers == 2      \* workers calling __getitem__ at the same time
MaxCalls == 2        \* __getitem__ calls on one OpDataset
MaxWrites == 1       \* writes of callers into returned mappings

----------------------------------------------------------------------------
(* Python values *)
NoneTok == "<None>"  \* None as a list element

PyNone == [tag |-> "None", v |-> <<>>]
PyStr(s) == [tag |-> "str", v |-> <<s>>]
PyList(seq) == [tag |-> "list", v |-> seq]

\* bool(x): None, "" and [] are falsy
Truthy(x) ==
    CASE x.tag = "None" -> FALSE
      [] x.tag = "str" -> x.v[1] /= ""
      [] x.tag = "list" -> x.v /= <<>>

Range(s) == {s[i] : i \in DOMAIN s}

\* the specifications of the pure functions have no dataset
NoDataset ==
    /\ dataset = PyNone
    /\ heap = <<>>
    /\ workers = <<>>
    /\ returned = {}
    /\ firstRet = <<>>
    /\ original = <<>>
    /\ calls = [getitem |-> 0, writes |-> 0]

----------------------------------------------------------------------------
(* verify_ops *)
ClassNames == {"RecordWriter", "Pipeline", "Network", "Estimator"}

\* the inheritage dict; a name outside it raises KeyError
inheritage(class_name) ==
    CASE class_name = "RecordWriter" -> {"NumpyOp"}
      [] class_name = "Pipeline" -> {"TensorOp", "TensorFilter"}
      [] class_name = "Network" -> {"TensorOp"}
      [] OTHER -> {}

\* the check of one adjacent pair, with the loop-invariant name `inputs'
\* bound to ops[0].inputs as the code binds it
PairLosesResult(op, next, inputs) ==
    /\ Truthy(next.inputs)
    /\ next.inputs /= inputs
    /\ ~Truthy(op.outputs)

RECURSIVE VerifyLoop(_, _, _, _)
VerifyLoop(os, idx, inputs, inheritage_class) ==
    IF idx > Len(os) THEN "returned"
    ELSE IF os[idx].cls \notin inheritage_class THEN "AssertionError:inheritage"
    ELSE IF idx + 1 <= Len(os) /\ PairLosesResult(os[idx], os[idx + 1], inputs)
         THEN "AssertionError:outputs lost"
    ELSE VerifyLoop(os, idx + 1, inputs, inheritage_class)

\* a verifier without the assertion of line 47
verify_ops_no_inputs_check(os, class_name) ==
    IF class_name \notin {"RecordWriter", "Pipeline", "Network"} THEN "KeyError"
    ELSE IF os = <<>> THEN "IndexError"
    ELSE IF ~Truthy(os[Len(os)].outputs) THEN "AssertionError:outputs"
    ELSE VerifyLoop(os, 1, os[1].inputs, inheritage(class_name))

\* verify_ops(ops, class_name): "returned", or the exception it raises
verify_ops(os, class_name) ==
    IF class_name \notin {"RecordWriter", "Pipeline", "Network"} THEN "KeyError"
    ELSE IF os = <<>> THEN "IndexError"
    ELSE IF ~Truthy(os[1].inputs) THEN "AssertionError:inputs"
    ELSE IF ~Truthy(os[Len(os)].outputs) THEN "AssertionError:outputs"
    ELSE VerifyLoop(os, 1, os[1].inputs, inheritage(class_name))

Rejected(r) == r /= "returned"

VerifyKeys == {PyNone, PyStr("x"), PyStr("y"), PyList(<<>>)}
VerifyClasses == {"NumpyOp", "TensorOp"}
VerifyOp == [inputs : VerifyKeys, outputs : {PyNone, PyStr("y"), PyList(<<>>)},
             mode : {PyNone}, cls : VerifyClasses]

SeqUpTo(S, n) == UNION {[1..k -> S] : k \in 0..n}

InitVerify ==
    /\ pc = "start"
    /\ ops \in SeqUpTo(VerifyOp, MaxOps)
    /\ arg \in ClassNames
    /\ result = "none"
    /\ forwardLog = <<>>
    /\ nested = <<>>
    /\ oneOf = PyNone
    /\ NoDataset

VerifyCall ==
    /\ pc = "start"
    /\ pc' = "verified"
    /\ result' = verify_ops(ops, arg)
    /\ UNCHANGED <<ops, arg, forwardLog, nested, oneOf, dsVars>>

NextVerify == VerifyCall

SpecVerify == InitVerify /\ [][NextVerify]_vars

\* C1: verify_ops rejects every list with an adjacent pair (op[i], op[i+1])
\* where op[i+1] declares non-empty inputs different from op[i]'s inputs and
\* op[i] declares no outputs, at every position i.
HasLossyPair(os) ==
    \E i \in 1..(Len(os) - 1) :
        /\ Truthy(os[i + 1].inputs)
        /\ os[i + 1].inputs /= os[i].inputs
        /\ ~Truthy(os[i].outputs)

C1_LossyPairRejected ==
    (pc = "verified" /\ HasLossyPair(ops)) => Rejected(result)

\* C7: verify_ops rejects every non-empty list whose first operation has
\* empty inputs or whose last operation has empty outputs, whatever the other
\* operations and the context name are (an assertion failure for the three
\* known contexts), and no forward was called.
EmptyBoundary(os) ==
    /\ os /= <<>>
    /\ (~Truthy(os[1].inputs) \/ ~Truthy(os[Len(os)].outputs))

C7_BoundaryRejected ==
    (pc = "verified" /\ EmptyBoundary(ops)) =>
        /\ Rejected(result)
        /\ arg \in {"RecordWriter", "Pipeline", "Network"} =>
               result \in {"AssertionError:inputs", "AssertionError:outputs"}
        /\ forwardLog = <<>>

C7_Witness ==
    /\ pc = "verified"
    /\ Len(ops) = 3
    /\ Truthy(ops[1].inputs)
    /\ ~Truthy(ops[3].outputs)
    /\ Truthy(ops[2].outputs)
    /\ arg = "RecordWriter"
    /\ result = "AssertionError:outputs"

----------------------------------------------------------------------------
(* flatten_operation *)
\* A nested argument is a tree: an operation (leaf) or a Python list of trees.
OpNode(o) == [isList |-> FALSE, op |-> o, kids |-> <<>>]
ListNode(k) == [isList |-> TRUE, op |-> "", kids |-> k]

OpNames == {"a", "b"}

RECURSIVE Concat(_)
Concat(ss) == IF ss = <<>> THEN <<>> ELSE Head(ss) \o Concat(Tail(ss))

\* a loop that wraps every element, lists too
WrapElements_all(kids) == [i \in DOMAIN kids |-> ListNode(<<kids[i]>>)]

\* lines 26-28: every element that is not a list is replaced, in place, by a
\* one-element list
WrapElements(kids) ==
    [i \in DOMAIN kids |-> IF kids[i].isList THEN kids[i] ELSE ListNode(<<kids[i]>>)]

\* the list `ops' after lines 24-28
flatten_wrapped(t) ==
    IF t.isList THEN WrapElements(t.kids) ELSE WrapElements(<<t>>)

\* line 29: chain.from_iterable concatenates the elements, one level only
flatten_operation(t) ==
    Concat([i \in DOMAIN flatten_wrapped(t) |-> flatten_wrapped(t)[i].kids])

\* what the caller's argument is after the call: a list argument was
\* rewritten in place, anything else is untouched
flatten_argument_after(t) ==
    IF t.isList THEN ListNode(WrapElements(t.kids)) ELSE t

RECURSIVE TreesOfSize(_), ForestsOfSize(_)
TreesOfSize(n) ==
    IF n = 1 THEN {OpNode(o) : o \in OpNames} \cup {ListNode(<<>>)}
    ELSE {ListNode(f) : f \in ForestsOfSize(n - 1)}
ForestsOfSize(n) ==
    IF n = 0 THEN {<<>>}
    ELSE UNION {{<<t>> \o f : t \in TreesOfSize(k), f \in ForestsOfSize(n - k)} : k \in 1..n}

NestedArgs == UNION {TreesOfSize(n) : n \in 1..MaxNodes}

InitFlatten ==
    /\ pc = "start"
    /\ nested \in NestedArgs
    /\ arg = nested
    /\ ops = <<>>
    /\ result = "none"
    /\ forwardLog = <<>>
    /\ oneOf = PyNone
    /\ NoDataset

FlattenCall ==
    /\ pc = "start"
    /\ pc' = "flattened"
    /\ result' = flatten_operation(nested)
    /\ nested' = flatten_argument_after(nested)
    /\ UNCHANGED <<ops, arg, forwardLog, oneOf, dsVars>>

NextFlatten == FlattenCall

SpecFlatten == InitFlatten /\ [][NextFlatten]_vars

Max(S) == CHOOSE x \in S : \A y \in S : y <= x

RECURSIVE Depth(_)
Depth(t) ==
    IF ~t.isList THEN 0
    ELSE 1 + Max({0} \cup {Depth(t.kids[i]) : i \in DOMAIN t.kids})

RECURSIVE LeafOrder(_)
LeafOrder(t) ==
    IF ~t.isList THEN <<t>>
    ELSE Concat([i \in DOMAIN t.kids |-> LeafOrder(t.kids[i])])

NoListElement(seq) == \A i \in DOMAIN seq : ~seq[i].isList

\* C2 (as claimed): for every nested list, of any depth, flatten_operation
\* returns only operations, in depth-first left-to-right leaf order.
C2_FlattenAnyDepth ==
    pc = "flattened" => (NoListElement(result) /\ result = LeafOrder(arg))

\* C2 (amended): for a single op, a flat list, or a list whose elements are
\* ops or flat lists of ops (nesting depth at most 2), flatten_operation
\* returns only operations, in depth-first left-to-right leaf order; for any
\* argument the leaf order of the result equals the leaf order of the argument.
C2_FlattenDepthTwo ==
    pc = "flattened" =>
        /\ Depth(arg) <= 2 => (NoListElement(result) /\ result = LeafOrder(arg))
        /\ Concat([i \in DOMAIN result |-> LeafOrder(result[i])]) = LeafOrder(arg)

C2_Witness ==
    /\ pc = "flattened"
    /\ Depth(arg) = 2
    /\ Len(arg.kids) = 3
    /\ ~arg.kids[1].isList
    /\ arg.kids[2].isList
    /\ Len(result) = 3
    /\ result[1] /= result[2]

----------------------------------------------------------------------------
(* get_op_from_mode *)
Modes == {"train", "eval", "test"}

\* lines 35-37: a mode that is not a list becomes a one-element list
ModeAsList(mode) ==
    CASE mode.tag = "list" -> mode.v
      [] mode.tag = "None" -> <<NoneTok>>
      [] mode.tag = "str" -> mode.v

\* a test that forgets the always-applicable operations
ModeSelected_no_none(op, current_mode) ==
    current_mode \in Range(ModeAsList(op.mode))

\* line 38
ModeSelected(op, current_mode) ==
    NoneTok \in Range(ModeAsList(op.mode)) \/ current_mode \in Range(ModeAsList(op.mode))

\* the loop of lines 34-39; os is the list iterated, selected the list built
RECURSIVE SelectLoop(_, _, _, _)
SelectLoop(os, idx, selected, current_mode) ==
    IF idx > Len(os) THEN [selected |-> selected, ops |-> os]
    ELSE IF ModeSelected(os[idx], current_mode)
         THEN SelectLoop(os, idx + 1, Append(selected, os[idx]), current_mode)
    ELSE SelectLoop(os, idx + 1, selected, current_mode)

\* a filter that removes the unselected operations from the list it iterates
RECURSIVE RemoveLoop(_, _, _)
RemoveLoop(os, idx, current_mode) ==
    IF idx > Len(os) THEN [selected |-> os, ops |-> os]
    ELSE IF ModeSelected(os[idx], current_mode) THEN RemoveLoop(os, idx + 1, current_mode)
    ELSE RemoveLoop(SubSeq(os, 1, idx - 1) \o SubSeq(os, idx + 1, Len(os)), idx + 1, current_mode)

get_op_from_mode_inplace(os, current_mode) == RemoveLoop(os, 1, current_mode)

\* the whole call: the list returned and the argument list after the call
get_op_from_mode_run(os, current_mode) == SelectLoop(os, 1, <<>>, current_mode)

get_op_from_mode(os, current_mode) == get_op_from_mode_run(os, current_mode).selected

ModeVals == {PyNone, PyStr("train"), PyStr("eval"), PyList(<<>>), PyList(<<"train">>),
             PyList(<<"train", "eval">>), PyList(<<"eval", "test">>)}
FilterOp == [name : OpNames, inputs : {PyStr("x")}, outputs : {PyStr("x")},
             mode : ModeVals, cls : {"NumpyOp"}]

InitFilter ==
    /\ pc = "start"
    /\ ops \in SeqUpTo(FilterOp, MaxOps)
    /\ arg \in Modes
    /\ result = "none"
    /\ forwardLog = <<>>
    /\ nested = <<>>
    /\ oneOf = PyNone
    /\ NoDataset

FilterCall ==
    /\ pc = "start"
    /\ pc' = "filtered"
    /\ result' = get_op_from_mode(ops, arg)
    /\ ops' = get_op_from_mode_run(ops, arg).ops
    /\ UNCHANGED <<arg, forwardLog, nested, oneOf, dsVars>>

NextFilter == FilterCall

SpecFilter == InitFilter /\ [][NextFilter]_vars

\* C3: get_op_from_mode(ops, m) is exactly the subsequence of ops whose
\* declared mode is None, equals m, or is a list of mode strings containing
\* m, in the order of ops.
DeclaredFor(op) ==
    \/ op.mode = PyNone
    \/ op.mode = PyStr(arg)
    \/ (op.mode.tag = "list" /\ \E i \in DOMAIN op.mode.v : op.mode.v[i] = arg)

C3_FilterExact ==
    pc = "filtered" => result = SelectSeq(ops, DeclaredFor)

C3_Witness ==
    /\ pc = "filtered"
    /\ Len(ops) = 3
    /\ ops[1].mode = PyNone
    /\ ops[2].mode.tag = "list" /\ ~DeclaredFor(ops[2]) /\ ops[2].mode.v /= <<>>
    /\ ops[3].mode = PyList(<<"eval", "test">>)
    /\ arg = "test"
    /\ result = <<ops[1], ops[3]>>

\* C8: filtering is idempotent, get_op_from_mode(get_op_from_mode(ops, m), m)
\* = get_op_from_mode(ops, m), and the call leaves the list ops and every
\* operation's mode as they were.
C8_FilterIdempotentPure ==
    /\ [](pc = "filtered" => get_op_from_mode(result, arg) = result)
    /\ [][pc' = "filtered" => ops' = ops]_vars

C8_Witness ==
    /\ pc = "filtered"
    /\ Len(ops) = 3
    /\ Len(result) = 1
    /\ result[1] = ops[3]
    /\ ops[3].mode = PyStr("eval")
    /\ ops[1].mode = PyStr("train")

----------------------------------------------------------------------------
(* NumpyOp, Binarize, Reshape, OneOf *)
\* An array is its shape and its elements in row-major order; element values
\* are in tenths (2 is 0.2, 10 is 1.0).
Array(shape, flat) == [shape |-> shape, flat |-> flat]

\* NumpyOp.__init__ stores the three declarations as given
NumpyOp(inputs, outputs, mode) ==
    [inputs |-> inputs, outputs |-> outputs, mode |-> mode, cls |-> "NumpyOp"]

\* Binarize.forward: 1.0 where the element is not less than the threshold
Binarize_forward(threshold, data) ==
    [i \in DOMAIN data |->
        Array(data[i].shape,
              [j \in DOMAIN data[i].flat |-> IF data[i].flat[j] >= threshold THEN 10 ELSE 0])]

\* Reshape.forward: same elements, new shape (every shape of this model has
\* as many elements as the arrays of this model; np.reshape raises otherwise)
Reshape_forward(shape, data) ==
    [i \in DOMAIN data |-> Array(shape, data[i].flat)]

\* forward of a child operation, by its class
Op_forward(op, data, state) ==
    CASE op.fn.kind = "Binarize" -> Binarize_forward(op.fn.threshold, data)
      [] op.fn.kind = "Reshape" -> Reshape_forward(op.fn.shape, data)
      [] op.fn.kind = "NumpyOp" -> data

\* OneOf.__init__, lines 32-37: the first assertion that fails, if any
RECURSIVE OneOfCheck(_, _)
OneOfCheck(numpy_ops, idx) ==
    IF idx > Len(numpy_ops) THEN "constructed"
    ELSE IF numpy_ops[1].inputs /= numpy_ops[idx].inputs THEN "AssertionError:inputs"
    ELSE IF numpy_ops[1].outputs /= numpy_ops[idx].outputs THEN "AssertionError:outputs"
    ELSE IF numpy_ops[1].mode /= numpy_ops[idx].mode THEN "AssertionError:mode"
    ELSE OneOfCheck(numpy_ops, idx + 1)

\* a constructor that does not compare the modes
RECURSIVE OneOfCheck_no_mode(_, _)
OneOfCheck_no_mode(numpy_ops, idx) ==
    IF idx > Len(numpy_ops) THEN "constructed"
    ELSE IF numpy_ops[1].inputs /= numpy_ops[idx].inputs THEN "AssertionError:inputs"
    ELSE IF numpy_ops[1].outputs /= numpy_ops[idx].outputs THEN "AssertionError:outputs"
    ELSE OneOfCheck_no_mode(numpy_ops, idx + 1)

OneOf_init_no_mode(numpy_ops) ==
    IF numpy_ops = <<>> THEN "IndexError" ELSE OneOfCheck_no_mode(numpy_ops, 2)

\* OneOf.__init__: how the constructor ends
OneOf_init(numpy_ops) ==
    IF numpy_ops = <<>> THEN "IndexError" ELSE OneOfCheck(numpy_ops, 2)

\* lines 38-39: the instance a successful constructor leaves
OneOf_object(numpy_ops) ==
    [self |-> NumpyOp(numpy_ops[1].inputs, numpy_ops[1].outputs, numpy_ops[1].mode),
     numpy_ops |-> numpy_ops]

\* random.choice(self.numpy_ops): the children it may return
OneOf_choices(self) == DOMAIN self.numpy_ops

\* a forward that runs the chosen child on the result of the first child
OneOf_forward_twice(self, k, data, state) ==
    [calls |-> <<[callee |-> 1, data |-> data, state |-> state],
                 [callee |-> k, data |-> Op_forward(self.numpy_ops[1], data, state),
                  state |-> state]>>,
     ret |-> Op_forward(self.numpy_ops[k], Op_forward(self.numpy_ops[1], data, state), state)]

\* OneOf.forward once random.choice returned child k: the forward calls it
\* makes and the value it returns
OneOf_forward(self, k, data, state) ==
    [calls |-> <<[callee |-> k, data |-> data, state |-> state]>>,
     ret |-> Op_forward(self.numpy_ops[k], data, state)]

Fns == {[kind |-> "Binarize", threshold |-> 5, shape |-> <<>>],
        [kind |-> "Reshape", threshold |-> 0, shape |-> <<2, 1>>]}
ChildOp == [inputs : {PyStr("x"), PyList(<<"x">>)}, outputs : {PyStr("x"), PyStr("y")},
            mode : {PyNone, PyStr("train")}, cls : {"NumpyOp"}, fn : Fns]
DataVals == {<<Array(<<2>>, <<2, 7>>)>>, <<Array(<<2>>, <<7, 7>>)>>}
StateVals == {[mode |-> "train"], [mode |-> "eval"]}

InitOneOf ==
    /\ pc = "start"
    /\ ops \in SeqUpTo(ChildOp, MaxOps)
    /\ arg = "none"
    /\ result = "none"
    /\ forwardLog = <<>>
    /\ nested = <<>>
    /\ oneOf = PyNone
    /\ NoDataset

\* OneOf(*ops) raises
OneOfInitFails ==
    /\ pc = "start"
    /\ OneOf_init(ops) /= "constructed"
    /\ pc' = "failed"
    /\ result' = OneOf_init(ops)
    /\ UNCHANGED <<ops, arg, forwardLog, nested, oneOf, dsVars>>

\* OneOf(*ops) returns the instance
OneOfInit ==
    /\ pc = "start"
    /\ OneOf_init(ops) = "constructed"
    /\ pc' = "constructed"
    /\ result' = "constructed"
    /\ oneOf' = OneOf_object(ops)
    /\ UNCHANGED <<ops, arg, forwardLog, nested, dsVars>>

\* one call of OneOf.forward in which random.choice returns child k
OneOfForwardChoosing(k) ==
    /\ pc \in {"constructed", "forwarded"}
    /\ Len(forwardLog) < 2 * MaxForward
    /\ k \in OneOf_choices(oneOf)
    /\ \E data \in DataVals, state \in StateVals :
        /\ arg' = [data |-> data, state |-> state]
        /\ forwardLog' = forwardLog
                            \o <<[callee |-> 0, data |-> data, state |-> state]>>
                            \o OneOf_forward(oneOf, k, data, state).calls
        /\ result' = OneOf_forward(oneOf, k, data, state).ret
    /\ pc' = "forwarded"
    /\ UNCHANGED <<ops, nested, oneOf, dsVars>>

OneOfForward == \E k \in 1..MaxOps : OneOfForwardChoosing(k)

NextOneOf == OneOfInitFails \/ OneOfInit \/ OneOfForward

SpecOneOf == InitOneOf /\ [][NextOneOf]_vars

SameContract(a, b) ==
    a.inputs = b.inputs /\ a.outputs = b.outputs /\ a.mode = b.mode

\* C6: OneOf construction from one or more children succeeds iff every child
\* has the inputs, outputs and mode of the first child; on success the OneOf
\* declares exactly these, on failure an assertion fails and no OneOf exists.
C6_OneOfConstruction ==
    (pc \in {"constructed", "failed"} /\ Len(ops) >= 1) =>
        /\ pc = "constructed" <=> \A i \in DOMAIN ops : SameContract(ops[i], ops[1])
        /\ pc = "constructed" =>
               /\ SameContract(oneOf.self, ops[1])
               /\ oneOf.numpy_ops = ops
        /\ pc = "failed" =>
               /\ oneOf = PyNone
               /\ result \in {"AssertionError:inputs", "AssertionError:outputs",
                              "AssertionError:mode"}

C6_Witness ==
    /\ pc = "failed"
    /\ Len(ops) = 3
    /\ SameContract(ops[2], ops[1])
    /\ ops[3].inputs = ops[1].inputs
    /\ ops[3].outputs = ops[1].outputs
    /\ ops[3].mode /= ops[1].mode
    /\ result = "AssertionError:mode"

\* C9: every call of OneOf.forward(data, state) calls forward on exactly one
\* child, once, with the same data and state, and returns that child's
\* result; before every call each child can still be the one chosen.
C9_OneOfForward ==
    /\ pc = "forwarded" =>
        /\ Len(forwardLog) % 2 = 0
        /\ \A i \in DOMAIN forwardLog :
              IF i % 2 = 1 THEN forwardLog[i].callee = 0
              ELSE /\ forwardLog[i].callee \in DOMAIN oneOf.numpy_ops
                   /\ forwardLog[i].data = forwardLog[i - 1].data
                   /\ forwardLog[i].state = forwardLog[i - 1].state
        /\ forwardLog[Len(forwardLog) - 1].data = arg.data
        /\ forwardLog[Len(forwardLog) - 1].state = arg.state
        /\ result = Op_forward(oneOf.numpy_ops[forwardLog[Len(forwardLog)].callee],
                               arg.data, arg.state)
    /\ (pc \in {"constructed", "forwarded"} /\ Len(forwardLog) < 2 * MaxForward) =>
        \A k \in DOMAIN oneOf.numpy_ops : ENABLED OneOfForwardChoosing(k)

C9_Witness ==
    /\ pc = "forwarded"
    /\ Len(oneOf.numpy_ops) = 3
    /\ Len(forwardLog) = 4
    /\ forwardLog[2].callee = 3
    /\ forwardLog[4].callee = 1
    /\ oneOf.numpy_ops[1].fn.kind = "Binarize"
    /\ oneOf.numpy_ops[3].fn.kind = "Reshape"
    /\ result = <<Array(<<2>>, <<0, 10>>)>>

----------------------------------------------------------------------------
(* forward_numpyop, pad_batch, the wrapped dataset *)
PyInt(n) == [tag |-> "int", v |-> <<n>>]

\* the keys an inputs / outputs declaration names
KeyList(decl) == IF Truthy(decl) THEN decl.v ELSE <<>>

\* the result of forward is bound to the declared outputs; empty outputs
\* discard it
WriteOutputs(op, sample, out) ==
    [k \in DOMAIN sample \cup Range(KeyList(op.outputs)) |->
        IF \E i \in DOMAIN KeyList(op.outputs) : KeyList(op.outputs)[i] = k
        THEN out[CHOOSE i \in DOMAIN KeyList(op.outputs) : KeyList(op.outputs)[i] = k]
        ELSE sample[k]]

\* the operations of the chain in order; a declared input key that the
\* mapping lacks raises KeyError and leaves the mapping as it is by then
RECURSIVE ForwardLoop(_, _, _, _)
ForwardLoop(os, idx, sample, mode) ==
    IF idx > Len(os) THEN [sample |-> sample, exc |-> "none"]
    ELSE IF ~(Range(KeyList(os[idx].inputs)) \subseteq DOMAIN sample)
         THEN [sample |-> sample, exc |-> "KeyError"]
    ELSE ForwardLoop(os, idx + 1,
            WriteOutputs(os[idx], sample,
                Op_forward(os[idx],
                           [i \in DOMAIN KeyList(os[idx].inputs) |->
                               sample[KeyList(os[idx].inputs)[i]]],
                           [mode |-> mode])),
            mode)

\* forward_numpyop(ops, data, mode): the mode filter, then the chain, writing
\* into the mapping it was given
forward_numpyop(os, sample, mode) ==
    ForwardLoop(get_op_from_mode(os, mode), 1, sample, mode)

\* pad a one-dimensional array at its end to n elements
PadArray(a, n, pad_value) ==
    Array(<<n>>, [j \in 1..n |-> IF j <= Len(a.flat) THEN a.flat[j] ELSE pad_value])

\* pad_batch(batch, pad_value): for every key of the first sample, the array
\* of every sample that has the key is padded to the largest extent among
\* these samples
pad_batch(batch, pad_value) ==
    [i \in DOMAIN batch |->
        [k \in DOMAIN batch[i] |->
            IF k \in DOMAIN batch[1]
            THEN PadArray(batch[i][k],
                          Max({Len(batch[j][k].flat) :
                                  j \in {n \in DOMAIN batch : k \in DOMAIN batch[n]}}),
                          pad_value)
            ELSE batch[i][k]]]

\* line 41, item[key]: a sample without a key of the first sample raises
\* KeyError
CollateRaises(items) ==
    \E i \in DOMAIN items : ~(DOMAIN items[1] \subseteq DOMAIN items[i])

\* a collation that stacks the samples last to first
Collate_reversed(items) ==
    [k \in DOMAIN items[1] |->
        Array(<<Len(items)>>, [i \in DOMAIN items |-> items[Len(items) + 1 - i][k]])]

\* line 41: one mapping from every key of the first sample to the array of
\* the samples' values for the key, in list order
Collate(items) ==
    [k \in DOMAIN items[1] |->
        Array(<<Len(items)>>, [i \in DOMAIN items |-> items[i][k]])]

\* the wrapped dataset: indexed retrieval yields the stored mapping itself
\* (a batch dataset: a list of the stored sample mappings)
Dataset_getitem(ds, index) ==
    IF ds.isBatch
    THEN SubSeq(ds.order, (index - 1) * BatchSize + 1, index * BatchSize)
    ELSE <<ds.order[index]>>

Dataset_len(ds) == IF ds.isBatch THEN Len(ds.order) \div BatchSize ELSE Len(ds.order)

\* BatchDataset.shuffle(): the samples are dealt to the batches anew; of the
\* possible deals the model keeps two, the one before and a different one
Rotate(seq, r) == [i \in DOMAIN seq |-> seq[((i - 1 + r) % Len(seq)) + 1]]
Dataset_shuffle(ds) ==
    {[ds EXCEPT !.order = Rotate(ds.order, r), !.shuffles = @ + 1] : r \in 0..1}

----------------------------------------------------------------------------
(* OpDataset *)
Workers == 1..NumWorkers

\* lines 29-30: a wrapper that shuffles whatever it wraps
OpDataset_init_dataset_always(ds) == Dataset_shuffle(ds)

\* lines 28-30: the wrapped dataset after self.dataset is bound
OpDataset_init_dataset(ds) ==
    IF ds.isBatch THEN Dataset_shuffle(ds) ELSE {ds}

\* Object identities: the stored samples come first; the objects that the
\* n-th __getitem__ call creates follow at base(n) + 1, base(n) + 2, ...
CallBase(ds, n) == Len(ds.order) + n * (BatchSize + 1)

\* no copy at all: the retrieved mappings themselves
Retrieved_alias(h, refs, base) == [heap |-> h, items |-> refs]

\* copy.copy: a new list of the same mappings; a single mapping is copied
Retrieved_shallow(h, refs, base) ==
    IF Len(refs) > 1 THEN [heap |-> h, items |-> refs]
    ELSE [heap |-> h @@ ((base + 1) :> h[refs[1]]), items |-> <<base + 1>>]

\* line 35, deepcopy: every retrieved mapping becomes a new object with
\* equal contents
Retrieved_deepcopy(h, refs, base) ==
    [heap |-> [o \in DOMAIN h \cup {base + i : i \in DOMAIN refs} |->
                  IF o \in DOMAIN h THEN h[o] ELSE h[refs[o - base]]],
     items |-> [i \in DOMAIN refs |-> base + i]]

\* the value __getitem__(index) computes from the stored values of one item
\* when it runs alone
RECURSIVE FirstExc(_)
FirstExc(rs) ==
    IF rs = <<>> THEN "none"
    ELSE IF Head(rs).exc /= "none" THEN Head(rs).exc
    ELSE FirstExc(Tail(rs))

GetItemAlone(ds, os, mode, stored) ==
    LET done == [i \in DOMAIN stored |-> forward_numpyop(os, stored[i], mode)]
        samples == [i \in DOMAIN stored |-> done[i].sample]
    IN  IF FirstExc(done) /= "none" THEN [exc |-> FirstExc(done), value |-> <<>>]
        ELSE IF ~ds.isBatch THEN [exc |-> "none", value |-> samples[1]]
        ELSE IF CollateRaises(samples) THEN [exc |-> "KeyError", value |-> <<>>]
        ELSE IF ds.pad_value /= PyNone
             THEN [exc |-> "none", value |-> Collate(pad_batch(samples, ds.pad_value.v[1]))]
        ELSE [exc |-> "none", value |-> Collate(samples)]

\* ran: the positions of items on which forward_numpyop was called, in
\* order; padded: whether pad_batch was called
IdleWorker ==
    [pc |-> "idle", index |-> 0, items |-> <<>>, k |-> 0, base |-> 0, ret |-> 0,
     ran |-> <<>>, padded |-> FALSE]

\* the stored samples: arrays of two lengths alternate under "x", and every
\* third sample has a further key "z"
ArrayVals == <<Array(<<2>>, <<2, 7>>), Array(<<1>>, <<7>>)>>
StoredSamples(n) ==
    [i \in 1..n |->
        [k \in (IF i % 3 = 0 THEN {"x", "z"} ELSE {"x"}) |->
            IF k = "x" THEN ArrayVals[((i + 1) % 2) + 1] ELSE Array(<<1>>, <<3>>)]]

BinarizeOp(inputs, outputs, mode) ==
    [inputs |-> inputs, outputs |-> outputs, mode |-> mode, cls |-> "NumpyOp",
     fn |-> [kind |-> "Binarize", threshold |-> 5, shape |-> <<>>]]
PlainOp(inputs, outputs, mode) ==
    [inputs |-> inputs, outputs |-> outputs, mode |-> mode, cls |-> "NumpyOp",
     fn |-> [kind |-> "NumpyOp", threshold |-> 0, shape |-> <<>>]]

\* the ops and mode a wrapper is constructed with: a chain that adds a key
\* and overwrites its input; its second op finds its key only in train mode
Bindings ==
    {[ops |-> <<BinarizeOp(PyStr("x"), PyStr("y"), PyStr("train")),
                PlainOp(PyStr("y"), PyStr("x"), PyList(<<"train", "eval">>))>>,
      mode |-> "train"],
     [ops |-> <<BinarizeOp(PyStr("x"), PyStr("y"), PyStr("train")),
                PlainOp(PyStr("y"), PyStr("x"), PyList(<<"train", "eval">>))>>,
      mode |-> "eval"]}

Datasets ==
    {[isBatch |-> FALSE, pad_value |-> PyNone, order |-> [i \in 1..NumIndex |-> i],
      shuffles |-> 0]}
    \cup {[isBatch |-> TRUE, pad_value |-> p, order |-> [i \in 1..(NumIndex * BatchSize) |-> i],
           shuffles |-> 0] : p \in {PyNone, PyInt(0)}}

Init ==
    /\ pc = "start"
    /\ dataset \in Datasets
    /\ heap = StoredSamples(Len(dataset.order))
    /\ \E b \in Bindings : ops = b.ops /\ arg = b.mode
    /\ result = PyNone
    /\ forwardLog = <<>>
    /\ nested = <<>>
    /\ oneOf = PyNone
    /\ workers = [w \in Workers |-> IdleWorker]
    /\ returned = {}
    /\ firstRet = [i \in 1..NumIndex |-> [set |-> FALSE, exc |-> "none", value |-> <<>>]]
    /\ original = <<>>
    /\ calls = [getitem |-> 0, writes |-> 0]

\* OpDataset.__init__, lines 28-30
OpDatasetInitDataset ==
    /\ pc = "start"
    /\ pc' = "init"
    /\ dataset' \in OpDataset_init_dataset(dataset)
    /\ UNCHANGED <<ops, arg, result, forwardLog, nested, oneOf,
                   heap, workers, returned, firstRet, original, calls>>

\* OpDataset.__init__, lines 31-32; the constructor returns the wrapper
OpDatasetInitOps ==
    /\ pc = "init"
    /\ pc' = "ready"
    /\ original' = [i \in 1..Dataset_len(dataset) |->
                       [j \in DOMAIN Dataset_getitem(dataset, i) |->
                           heap[Dataset_getitem(dataset, i)[j]]]]
    /\ UNCHANGED <<ops, arg, result, forwardLog, nested, oneOf,
                   dataset, heap, workers, returned, firstRet, calls>>

\* line 35, self.dataset[index]; the workers are interchangeable and a new
\* call runs on the first idle one
Retrieve(w, index) ==
    /\ pc = "ready"
    /\ workers[w].pc = "idle"
    /\ \A u \in Workers : u < w => workers[u].pc /= "idle"
    /\ calls.getitem < MaxCalls
    /\ calls' = [calls EXCEPT !.getitem = @ + 1]
    /\ workers' = [workers EXCEPT ![w] =
                      [pc |-> "retrieved", index |-> index,
                       items |-> Dataset_getitem(dataset, index), k |-> 1,
                       base |-> CallBase(dataset, calls.getitem), ret |-> 0,
                       ran |-> <<>>, padded |-> FALSE]]
    /\ UNCHANGED <<pc, ops, arg, result, forwardLog, nested, oneOf,
                   dataset, heap, returned, firstRet, original>>

\* line 35, deepcopy(...)
DeepCopy(w) ==
    /\ workers[w].pc = "retrieved"
    /\ heap' = Retrieved_deepcopy(heap, workers[w].items, workers[w].base).heap
    /\ workers' = [workers EXCEPT ![w].pc = "copied",
                                  ![w].items = Retrieved_deepcopy(heap, workers[w].items,
                                                                  workers[w].base).items]
    /\ UNCHANGED <<pc, ops, arg, result, forwardLog, nested, oneOf,
                   dataset, returned, firstRet, original, calls>>

\* lines 37-38 and 43: forward_numpyop on the next mapping of items
ApplyOps(w) ==
    /\ workers[w].pc = "copied"
    /\ LET me == workers[w]
           obj == me.items[me.k]
           run == forward_numpyop(ops, heap[obj], arg)
       IN  /\ heap' = [heap EXCEPT ![obj] = run.sample]
           /\ workers' = [workers EXCEPT ![w] =
                 IF run.exc /= "none"
                 THEN [me EXCEPT !.pc = "raised", !.ran = Append(@, me.k)]
                 ELSE IF me.k < Len(me.items)
                 THEN [me EXCEPT !.k = @ + 1, !.ran = Append(@, me.k)]
                 ELSE IF dataset.isBatch
                 THEN [me EXCEPT !.pc = "applied", !.ran = Append(@, me.k)]
                 ELSE [me EXCEPT !.pc = "done", !.ret = obj, !.ran = Append(@, me.k)]]
    /\ UNCHANGED <<pc, ops, arg, result, forwardLog, nested, oneOf,
                   dataset, returned, firstRet, original, calls>>

\* lines 39-40
PadBatch(w) ==
    /\ workers[w].pc = "applied"
    /\ dataset.pad_value /= PyNone
    /\ LET me == workers[w]
           padded == pad_batch([i \in DOMAIN me.items |-> heap[me.items[i]]],
                               dataset.pad_value.v[1])
       IN  heap' = [o \in DOMAIN heap |->
                       IF \E i \in DOMAIN me.items : me.items[i] = o
                       THEN padded[CHOOSE i \in DOMAIN me.items : me.items[i] = o]
                       ELSE heap[o]]
    /\ workers' = [workers EXCEPT ![w].pc = "padded", ![w].padded = TRUE]
    /\ UNCHANGED <<pc, ops, arg, result, forwardLog, nested, oneOf,
                   dataset, returned, firstRet, original, calls>>

\* line 41
CollateBatch(w) ==
    /\ \/ workers[w].pc = "padded"
       \/ workers[w].pc = "applied" /\ dataset.pad_value = PyNone
    /\ LET samples == [i \in DOMAIN workers[w].items |-> heap[workers[w].items[i]]]
       IN  IF CollateRaises(samples)
           THEN /\ heap' = heap
                /\ workers' = [workers EXCEPT ![w].pc = "raised"]
           ELSE /\ heap' = heap @@ ((workers[w].base + BatchSize + 1) :> Collate(samples))
                /\ workers' = [workers EXCEPT ![w].pc = "done",
                                              ![w].ret = workers[w].base + BatchSize + 1]
    /\ UNCHANGED <<pc, ops, arg, result, forwardLog, nested, oneOf,
                   dataset, returned, firstRet, original, calls>>

\* line 44: the caller receives the mapping
Return(w) ==
    /\ workers[w].pc = "done"
    /\ returned' = returned \cup {workers[w].ret}
    /\ firstRet' = IF firstRet[workers[w].index].set THEN firstRet
                   ELSE [firstRet EXCEPT ![workers[w].index] =
                            [set |-> TRUE, exc |-> "none", value |-> heap[workers[w].ret]]]
    /\ workers' = [workers EXCEPT ![w] = IdleWorker]
    /\ UNCHANGED <<pc, ops, arg, result, forwardLog, nested, oneOf,
                   dataset, heap, original, calls>>

\* the exception of an operation leaves __getitem__
Raise(w) ==
    /\ workers[w].pc = "raised"
    /\ firstRet' = IF firstRet[workers[w].index].set THEN firstRet
                   ELSE [firstRet EXCEPT ![workers[w].index] =
                            [set |-> TRUE, exc |-> "KeyError", value |-> <<>>]]
    /\ workers' = [workers EXCEPT ![w] = IdleWorker]
    /\ UNCHANGED <<pc, ops, arg, result, forwardLog, nested, oneOf,
                   dataset, heap, returned, original, calls>>

\* a caller writes into a mapping it got from __getitem__
CallerWrite(obj, key, val) ==
    /\ obj \in returned
    /\ calls.writes < MaxWrites
    /\ calls' = [calls EXCEPT !.writes = @ + 1]
    /\ heap' = [heap EXCEPT ![obj] =
                   [k \in DOMAIN heap[obj] \cup {key} |-> IF k = key THEN val ELSE heap[obj][k]]]
    /\ UNCHANGED <<pc, ops, arg, result, forwardLog, nested, oneOf,
                   dataset, workers, returned, firstRet, original>>

\* OpDataset.__len__
LenCall ==
    /\ pc = "ready"
    /\ result' = PyInt(Dataset_len(dataset))
    /\ UNCHANGED <<pc, ops, arg, forwardLog, nested, oneOf, dsVars>>

GetItemStep ==
    \E w \in Workers :
        \/ \E index \in 1..NumIndex : Retrieve(w, index)
        \/ DeepCopy(w)
        \/ ApplyOps(w)
        \/ PadBatch(w)
        \/ CollateBatch(w)
        \/ Return(w)
        \/ Raise(w)

Next ==
    \/ OpDatasetInitDataset
    \/ OpDatasetInitOps
    \/ GetItemStep
    \/ \E obj \in returned : CallerWrite(obj, "x", Array(<<1>>, <<9>>))
    \/ LenCall

Spec == Init /\ [][Next]_vars

Stored(index) ==
    [j \in DOMAIN Dataset_getitem(dataset, index) |-> heap[Dataset_getitem(dataset, index)[j]]]

StoredUnchanged == \A i \in 1..NumIndex : Stored(i) = original[i]

\* C4: whatever __getitem__ calls and caller writes into returned mappings
\* happened, the items stored in the wrapped dataset are as they were, and
\* a __getitem__(i) that is about to return returns what the first
\* __getitem__(i) returned.
C4_DeepCopyIsolation ==
    pc = "ready" =>
        /\ StoredUnchanged
        /\ \A w \in Workers :
            /\ (workers[w].pc = "done" /\ firstRet[workers[w].index].set) =>
                    /\ firstRet[workers[w].index].exc = "none"
                    /\ heap[workers[w].ret] = firstRet[workers[w].index].value
            /\ (workers[w].pc = "raised" /\ firstRet[workers[w].index].set) =>
                    firstRet[workers[w].index].exc = "KeyError"

C4_Witness ==
    /\ pc = "ready"
    /\ ~dataset.isBatch
    /\ calls.writes = 1
    /\ \E w \in Workers :
        /\ workers[w].pc = "done"
        /\ firstRet[workers[w].index].set
        /\ \A j \in 1..NumIndex : j /= workers[w].index => ~firstRet[j].set
        /\ heap[workers[w].ret] /= original[workers[w].index][1]
        /\ \E obj \in returned : heap[obj] /= firstRet[workers[w].index].value

\* the mappings a call may write: its copies and its result
Owned(w) ==
    IF workers[w].pc \in {"copied", "applied", "padded", "raised"} THEN Range(workers[w].items)
    ELSE IF workers[w].pc = "done" THEN Range(workers[w].items) \cup {workers[w].ret}
    ELSE {}

\* C5: under every interleaving of the steps of concurrent __getitem__
\* calls, a call that is about to return returns what it would return when
\* run alone, and the mappings a call writes are neither stored in the
\* wrapped dataset, nor in a caller's hands, nor another call's.
C5_ConcurrentIsolation ==
    pc = "ready" =>
        /\ \A w \in Workers :
            LET alone == GetItemAlone(dataset, ops, arg, original[workers[w].index])
            IN  /\ workers[w].pc = "done" =>
                       (alone.exc = "none" /\ heap[workers[w].ret] = alone.value)
                /\ workers[w].pc = "raised" => alone.exc = "KeyError"
        /\ \A w \in Workers :
            /\ Owned(w) \cap Range(dataset.order) = {}
            /\ Owned(w) \cap returned = {}
            /\ \A u \in Workers \ {w} : Owned(w) \cap Owned(u) = {}

C5_Witness ==
    /\ pc = "ready"
    /\ dataset.isBatch
    /\ workers[1].pc = "done"
    /\ workers[2].pc = "copied"
    /\ workers[2].k = 2
    /\ workers[1].index = workers[2].index
    /\ heap[workers[2].items[1]] /= original[workers[2].index][1]

\* C10: a wrapped batch dataset is shuffled exactly once, by the
\* constructor, before any __getitem__ starts, and never by __getitem__ or
\* __len__; a wrapped dataset that is not a batch dataset is never shuffled.
C10_ShuffleOnce ==
    /\ dataset.shuffles = (IF dataset.isBatch /\ pc \in {"init", "ready"} THEN 1 ELSE 0)
    /\ pc /= "ready" => (calls.getitem = 0 /\ \A w \in Workers : workers[w].pc = "idle")

C10_Witness ==
    /\ pc = "ready"
    /\ dataset.isBatch
    /\ dataset.shuffles = 1
    /\ dataset.order /= [i \in 1..(NumIndex * BatchSize) |-> i]
    /\ calls.getitem = 2
    /\ returned /= {}
    /\ result = PyInt(NumIndex)

\* C11: a __getitem__ on a batch dataset that returns has run the operation
\* chain once on every sample of the retrieved list, each on its own; the
\* mapping returned has the keys of the first sample (after the ops), the
\* value of a key is the samples' values for it in list order, as many as
\* there are samples; pad_batch ran before the collation iff the pad value
\* is not None.
C11_BatchCollation ==
    \A w \in Workers :
        (pc = "ready" /\ dataset.isBatch /\ workers[w].pc = "done") =>
            LET me == workers[w]
                n == Len(me.items)
                samples == [j \in 1..n |-> heap[me.items[j]]]
                applied == [j \in 1..n |->
                               forward_numpyop(ops, original[me.index][j], arg).sample]
            IN  /\ n = BatchSize
                /\ me.ran = [j \in 1..n |-> j]
                /\ me.padded <=> dataset.pad_value /= PyNone
                /\ samples = (IF dataset.pad_value /= PyNone
                              THEN pad_batch(applied, dataset.pad_value.v[1])
                              ELSE applied)
                /\ DOMAIN heap[me.ret] = DOMAIN samples[1]
                /\ \A k \in DOMAIN heap[me.ret] :
                       /\ heap[me.ret][k].shape = <<n>>
                       /\ Len(heap[me.ret][k].flat) = n
                       /\ \A j \in 1..n : heap[me.ret][k].flat[j] = samples[j][k]

C11_Witness ==
    \E w \in Workers :
        /\ pc = "ready"
        /\ dataset.isBatch
        /\ dataset.pad_value = PyInt(0)
        /\ workers[w].pc = "done"
        /\ workers[w].padded
        /\ "z" \in DOMAIN heap[workers[w].items[2]]
        /\ DOMAIN heap[workers[w].ret] = {"x", "y"}
        /\ heap[workers[w].ret]["x"].flat[1] = Array(<<2>>, <<10, 0>>)
        /\ heap[workers[w].ret]["x"].flat[2] = Array(<<2>>, <<0, 10>>)

====
